---- MODULE Spec2Model ----
(***************************************************************************)
(* Model of EnhancedTradingBot (src/enhanced_trading_bot.py): the position *)
(* ledger (self.positions, positions.json) and the order placement paths.  *)
(*                                                                         *)
(* Quantities are integers: one unit is one lot step of the instrument.    *)
(* The exchange is the environment: every gateway call either fails or     *)
(* answers with a value drawn from the sets below.                         *)
(* Each thread of control (the CLI's main thread, a GUI worker thread of   *)
(* TradingBotUI.run_in_thread) executes one bot method at a time, one      *)
(* model step per statement that touches shared state or the network.      *)
(***************************************************************************)
EXTENDS Integers, Sequences, FiniteSets, TLC

\* ---------------------------------------------------------------- bounds
\* Largest order quantity, in lot steps.
MaxQty == 2
\* Calls of the bot's methods in one run of the order tracker (Spec).
MaxCalls == 1
\* Calls of the ledger's methods in one run of the ledger alone (SpecLedger).
MaxFills == 3
\* Calls in a run with concurrent callers (SpecConc).
MaxConcCalls == 2
\* Calls made after a first placement has returned (SpecFollowUp).
MaxFollowUps == 2
\* Two bot processes that share one store (SpecShared): fills applied by this process,
\* and fills applied by the second one.
MaxSharedFills == 2
MaxPeerFills == 1

\* ------------------------------------------------------------- value sets
Symbols == {"BTCUSDT", "ETHUSDT"}
Sides == {"BUY", "SELL"}
Statuses == {"NEW", "PARTIALLY_FILLED", "FILLED", "CANCELED", "REJECTED", "EXPIRED"}
Threads == {"t1", "t2"}
\* The thread of a sequential run (cli_interface, or a GUI used one request at a time).
MainThread == "t1"
\* What the callers pass as a quantity: float(argv) and the GUI's entry take any sign.
Quantities == {q \in (-1)..MaxQty : q # 0}
\* An optional argument: <<>> is Python's None, <<v>> is the value v.
None == <<>>
Some(v) == <<v>>
OptPrices == {None, Some(1)}

VARIABLES
  positions,   \* self.positions: [isdict, items]; items maps symbols to net quantities
  store,       \* the positions file on disk: [kind, text]
  boot,        \* outcome of __init__'s _load_positions: "ok" or the exception that escaped
  peer,        \* a second bot process on the same positions file: [up, positions, fills, saved]
  loaded,      \* history: the mapping _load_positions gave __init__
  pc,          \* per thread: the statement it is at
  fr,          \* per thread: arguments and locals of the running call, and its outcome
  applied,     \* history: per symbol, the signed sum of the quantities of completed update_position calls
  failed,      \* history: some store write of this run failed
  pending,     \* history: per symbol, the net quantity when a placement on it last returned NEW or PARTIALLY_FILLED
  calls        \* history: number of calls started

vars == <<positions, store, boot, peer, loaded, pc, fr, applied, failed, pending, calls>>

\* ------------------------------------------------------------ the ledger
EmptyItems == [k \in {} |-> 0]
EmptyDict == [isdict |-> TRUE, items |-> EmptyItems]
\* A JSON document that parses but is not an object (e.g. "[]"): json.load returns it as is.
NotADict == [isdict |-> FALSE, items |-> EmptyItems]

Abs(n) == IF n < 0 THEN -n ELSE n

\* Mutant of JsonDump: only the open positions are written, as get_all_positions lists them.
JsonDumpOpen(items) == {<<k, items[k]>> : k \in {s \in DOMAIN items : items[s] # 0}}

\* json.dump(self.positions, f, indent=2): one "key": value member per record.
JsonDump(items) == {<<k, items[k]>> : k \in DOMAIN items}

\* json.load(f) of an object document: the members back into a dict.
JsonLoad(text) == [k \in {m[1] : m \in text} |-> (CHOOSE m \in text : m[1] = k)[2]]

AbsentStore == [kind |-> "absent", text |-> {}]
ObjectStore(text) == [kind |-> "object", text |-> text]
\* open(path, 'w') has truncated the file and nothing (or not all) was flushed.
TruncatedStore == [kind |-> "malformed", text |-> {}]

\* _load_positions: [raised, value].
LoadPositions(st) ==
  CASE st.kind = "absent"      -> [raised |-> FALSE, value |-> EmptyDict]
    [] st.kind = "unreadable"  -> [raised |-> FALSE, value |-> EmptyDict]   \* IOError, caught
    [] st.kind = "malformed"   -> [raised |-> FALSE, value |-> EmptyDict]   \* JSONDecodeError, caught
    [] st.kind = "undecodable" -> [raised |-> TRUE,  value |-> EmptyDict]   \* UnicodeDecodeError, not caught
    [] st.kind = "array"       -> [raised |-> FALSE, value |-> NotADict]
    [] st.kind = "object"      -> [raised |-> FALSE,
                                   value |-> [isdict |-> TRUE, items |-> JsonLoad(st.text)]]

\* get_position: float(self.positions.get(symbol, 0.0)); [raised, value].
GetPosition(pos, symbol) ==
  IF ~pos.isdict
    THEN [raised |-> TRUE, value |-> 0]            \* AttributeError: no attribute 'get'
    ELSE [raised |-> FALSE,
          value |-> IF symbol \in DOMAIN pos.items THEN pos.items[symbol] ELSE 0]

\* Mutant of GetAllPositions: every record, closed positions included.
GetAllPositionsUnfiltered(pos) == pos.items

\* get_all_positions: the records whose quantity is not 0.
GetAllPositions(pos) ==
  [k \in {s \in DOMAIN pos.items : pos.items[s] # 0} |-> pos.items[k]]

\* Mutant of NewPosition: the quantity is combined as passed, without abs().
NewPositionSigned(current, quantity, is_buy) ==
  IF is_buy THEN current + quantity ELSE current - quantity

\* update_position, lines 116-125: the new position from the current one.
NewPosition(current, quantity, is_buy) ==
  IF is_buy THEN current + Abs(quantity) ELSE current - Abs(quantity)

\* Mutant of SetItem: a position that comes back to 0 has its record deleted.
SetItemPruning(pos, symbol, value) ==
  [pos EXCEPT !.items = [k \in IF value = 0 THEN DOMAIN pos.items \ {symbol}
                                            ELSE DOMAIN pos.items \cup {symbol} |->
                           IF k = symbol THEN value ELSE pos.items[k]]]

\* self.positions[symbol] = new_position
SetItem(pos, symbol, value) ==
  [pos EXCEPT !.items = [k \in DOMAIN pos.items \cup {symbol} |->
                           IF k = symbol THEN value ELSE pos.items[k]]]

\* Mutant of IsBuy: the side compared in the wrong case.
IsBuyNoUpper(side) == side = "buy"

\* is_buy = (side.upper() == 'BUY')
IsBuy(side) == side = "BUY"

\* The signed quantity of a fill: +|quantity| for a buy, -|quantity| for a sell.
SignedFill(quantity, side) == IF side = "BUY" THEN Abs(quantity) ELSE -Abs(quantity)

\* ------------------------------------------------------------ the calls
PlaceOps == {"market", "limit", "stop_limit"}
\* The statuses of an order that is still open on the exchange.
PendingStatuses == {"NEW", "PARTIALLY_FILLED"}
Rest == {"idle", "returned", "raised"}

NoFrame ==
  [op |-> "none", symbol |-> "BTCUSDT", side |-> "BUY",
   quantity |-> None, price |-> None, stop_price |-> None,
   status |-> "none", executedQty |-> 0,
   current_position |-> 0, new_position |-> 0, buffer |-> {},
   saved |-> "none", final_quantity |-> None, value |-> None, exc |-> "none",
   snapshot |-> EmptyItems,
   trace |-> <<>>, pre |-> [positions |-> EmptyDict, store |-> AbsentStore]]

\* Stores the process can find at start-up.
InitialStores ==
  {AbsentStore,
   [kind |-> "unreadable", text |-> {}],
   [kind |-> "undecodable", text |-> {}],
   [kind |-> "malformed", text |-> {}],
   [kind |-> "array", text |-> {}],
   ObjectStore({<<"BTCUSDT", 1>>, <<"ETHUSDT", 0>>})}

\* The second process before it is started.
PeerDown == [up |-> FALSE, positions |-> EmptyDict, fills |-> 0, saved |-> "none"]

\* __init__: self.positions = self._load_positions()
Init ==
  /\ store \in InitialStores
  /\ boot = IF LoadPositions(store).raised THEN "UnicodeDecodeError" ELSE "ok"
  /\ peer = PeerDown
  /\ positions = LoadPositions(store).value
  /\ loaded = positions
  /\ pc = [t \in Threads |-> "idle"]
  /\ fr = [t \in Threads |-> NoFrame]
  /\ applied = [s \in Symbols |-> 0]
  /\ failed = FALSE
  /\ pending = [s \in Symbols |-> None]
  /\ calls = 0

\* How a run is driven: which threads call, how many calls, and what the callers
\* and the exchange may supply.
Sequential ==
  [threads |-> {MainThread}, limit |-> MaxCalls,
   quantities |-> Quantities, statuses |-> Statuses]
LedgerOnly ==
  [threads |-> {MainThread}, limit |-> MaxFills,
   quantities |-> Quantities, statuses |-> Statuses]
Concurrent ==
  [threads |-> Threads, limit |-> MaxConcCalls,
   quantities |-> {1}, statuses |-> {"FILLED", "NEW"}]
Shared ==
  [threads |-> {MainThread}, limit |-> MaxSharedFills,
   quantities |-> {1}, statuses |-> Statuses]
FollowUp ==
  [threads |-> {MainThread}, limit |-> 1 + MaxFollowUps,
   quantities |-> {1}, statuses |-> {"FILLED", "NEW", "PARTIALLY_FILLED"}]

OptQuantitiesOf(m) == {None} \cup {Some(q) : q \in m.quantities}

\* A thread may start a call once its previous call is over.
CanCall(t, m) ==
  /\ boot = "ok"
  /\ t \in m.threads
  /\ pc[t] \in Rest
  /\ calls < m.limit

\* Entry of a method: the arguments are bound and the argument check is made.
Enter(t, op, symbol, side, quantity, price, stop_price, ok, first) ==
  /\ calls' = calls + 1
  /\ fr' = [fr EXCEPT ![t] =
              [NoFrame EXCEPT !.op = op, !.symbol = symbol, !.side = side,
                              !.quantity = quantity, !.price = price,
                              !.stop_price = stop_price,
                              !.exc = IF ok THEN "none" ELSE "ValueError",
                              !.trace = <<"validate">>,
                              !.pre = [positions |-> positions, store |-> store]]]
  /\ pc' = [pc EXCEPT ![t] = IF ok THEN first ELSE "raised"]
  /\ UNCHANGED <<positions, store, boot, peer, loaded, applied, failed, pending>>

\* place_market_order, line 244: if quantity is None: raise ValueError
MarketArgsOK(quantity) == quantity # None
\* Mutant of LimitArgsOK: the price is not checked.
LimitArgsOKNoPrice(quantity, price) == quantity # None

\* place_limit_order, line 278
LimitArgsOK(quantity, price) == quantity # None /\ price # None
\* place_stop_limit_order, line 316
StopLimitArgsOK(quantity, price, stop_price) ==
  quantity # None /\ price # None /\ stop_price # None

PlaceMarketOrder(t, m) ==
  \E symbol \in Symbols, side \in Sides, quantity \in OptQuantitiesOf(m) :
    /\ CanCall(t, m)
    /\ Enter(t, "market", symbol, side, quantity, None, None,
             MarketArgsOK(quantity), "submit")

PlaceLimitOrder(t, m) ==
  \E symbol \in Symbols, side \in Sides, quantity \in OptQuantitiesOf(m), price \in OptPrices :
    /\ CanCall(t, m)
    /\ Enter(t, "limit", symbol, side, quantity, price, None,
             LimitArgsOK(quantity, price), "submit")

PlaceStopLimitOrder(t, m) ==
  \E symbol \in Symbols, side \in Sides, quantity \in OptQuantitiesOf(m),
     price \in OptPrices, stop_price \in OptPrices :
    /\ CanCall(t, m)
    /\ Enter(t, "stop_limit", symbol, side, quantity, price, stop_price,
             StopLimitArgsOK(quantity, price, stop_price), "submit")

\* The thread leaves the method with an exception.
Raise(t, exc, event) ==
  /\ pc' = [pc EXCEPT ![t] = "raised"]
  /\ fr' = [fr EXCEPT ![t].exc = exc, ![t].trace = Append(@, event)]

\* Mutant of Submit: a rejected order is sent again.
SubmitRetrying(t) ==
  /\ pc[t] = "submit"
  /\ \/ /\ pc' = [pc EXCEPT ![t] = "query"]
        /\ fr' = [fr EXCEPT ![t].trace = Append(@, "submit")]
     \/ /\ Len(fr[t].trace) < 3
        /\ pc' = pc
        /\ fr' = [fr EXCEPT ![t].trace = Append(@, "submit")]
     \/ Raise(t, "BinanceAPIException", "submit")
  /\ UNCHANGED <<positions, store, boot, peer, loaded, applied, failed, pending, calls>>

\* order = self.client.futures_create_order(**params)
Submit(t) ==
  /\ pc[t] = "submit"
  /\ \/ /\ pc' = [pc EXCEPT ![t] = "query"]
        /\ fr' = [fr EXCEPT ![t].trace = Append(@, "submit")]
     \/ Raise(t, "BinanceAPIException", "submit")
  /\ UNCHANGED <<positions, store, boot, peer, loaded, applied, failed, pending, calls>>

\* Whether the placement goes on to update_position once the status is known.
\* place_market_order, lines 262-264: unconditionally.
MarketSettles(status) == TRUE
\* Mutant of LimitSettles: a partial fill settles too.
LimitSettlesPartial(status) == status \in {"FILLED", "PARTIALLY_FILLED"}

\* place_limit_order, line 301
LimitSettles(status) == status = "FILLED"
\* place_stop_limit_order, line 338
StopLimitSettles(status) == status = "FILLED"

Settles(op, status) ==
  CASE op = "market"     -> MarketSettles(status)
    [] op = "limit"      -> LimitSettles(status)
    [] op = "stop_limit" -> StopLimitSettles(status)

\* Mutant of Query: when the status query fails the error is logged and the placement
\* goes on to settle the order it has just had accepted.
QuerySettlingOnError(t, m) ==
  /\ pc[t] = "query"
  /\ \/ \E status \in m.statuses, executed \in {0, Abs(fr[t].quantity[1])} :
          /\ fr' = [fr EXCEPT ![t].status = status, ![t].executedQty = executed,
                              ![t].trace = IF Settles(fr[t].op, status)
                                             THEN Append(@, "query")
                                             ELSE @ \o <<"query", "return">>]
          /\ pc' = [pc EXCEPT ![t] = IF Settles(fr[t].op, status)
                                       THEN "upd_read" ELSE "returned"]
          /\ pending' = IF ~Settles(fr[t].op, status) /\ status \in PendingStatuses
                          THEN [pending EXCEPT ![fr[t].symbol] =
                                  Some(GetPosition(positions, fr[t].symbol).value)]
                          ELSE pending
     \/ /\ pc' = [pc EXCEPT ![t] = "upd_read"]
        /\ fr' = [fr EXCEPT ![t].exc = "BinanceAPIException", ![t].trace = Append(@, "query")]
        /\ UNCHANGED pending
  /\ UNCHANGED <<positions, store, boot, peer, loaded, applied, failed, calls>>

\* Mutant of Query: an order that is still open is asked about once more.
QueryPolling(t, m) ==
  /\ pc[t] = "query"
  /\ \/ \E status \in m.statuses, executed \in {0, Abs(fr[t].quantity[1])} :
          /\ fr' = [fr EXCEPT ![t].status = status, ![t].executedQty = executed,
                              ![t].trace = IF Settles(fr[t].op, status)
                                             THEN Append(@, "query")
                                             ELSE @ \o <<"query", "return">>]
          /\ pc' = [pc EXCEPT ![t] = IF Settles(fr[t].op, status)
                                       THEN "upd_read" ELSE "returned"]
          /\ pending' = IF ~Settles(fr[t].op, status) /\ status \in PendingStatuses
                          THEN [pending EXCEPT ![fr[t].symbol] =
                                  Some(GetPosition(positions, fr[t].symbol).value)]
                          ELSE pending
     \/ /\ Len(fr[t].trace) < 4
        /\ pc' = pc
        /\ fr' = [fr EXCEPT ![t].status = "NEW", ![t].trace = Append(@, "query")]
        /\ UNCHANGED pending
     \/ Raise(t, "BinanceAPIException", "query") /\ UNCHANGED pending
  /\ UNCHANGED <<positions, store, boot, peer, loaded, applied, failed, calls>>

\* order_status = self.get_order_status(symbol, order['orderId']), and the branch on it.
Query(t, m) ==
  /\ pc[t] = "query"
  /\ \/ \E status \in m.statuses, executed \in {0, Abs(fr[t].quantity[1])} :
          /\ fr' = [fr EXCEPT ![t].status = status, ![t].executedQty = executed,
                              ![t].trace = IF Settles(fr[t].op, status)
                                             THEN Append(@, "query")
                                             ELSE @ \o <<"query", "return">>]
          /\ pc' = [pc EXCEPT ![t] = IF Settles(fr[t].op, status)
                                       THEN "upd_read" ELSE "returned"]
          /\ pending' = IF ~Settles(fr[t].op, status) /\ status \in PendingStatuses
                          THEN [pending EXCEPT ![fr[t].symbol] =
                                  Some(GetPosition(positions, fr[t].symbol).value)]
                          ELSE pending
     \/ Raise(t, "BinanceAPIException", "query") /\ UNCHANGED pending
  /\ UNCHANGED <<positions, store, boot, peer, loaded, applied, failed, calls>>

\* Mutant of FillQuantity: the executed quantity of the order result.
FillQuantityExecuted(f) == f.executedQty

\* The quantity a placement passes to update_position: the request's quantity.
FillQuantity(f) == f.quantity[1]

\* update_position, lines 116-125: current_position = self.get_position(symbol), new_position.
UpdRead(t) ==
  /\ pc[t] = "upd_read"
  /\ LET g == GetPosition(positions, fr[t].symbol) IN
       IF g.raised
         THEN Raise(t, "AttributeError", "update")
         ELSE /\ fr' = [fr EXCEPT ![t].current_position = g.value,
                                  ![t].new_position =
                                     NewPosition(g.value, FillQuantity(fr[t]), IsBuy(fr[t].side))]
              /\ pc' = [pc EXCEPT ![t] = "upd_write"]
  /\ UNCHANGED <<positions, store, boot, peer, loaded, applied, failed, pending, calls>>

\* Mutant of UpdWrite: the new position is stored and returned without a store write.
UpdWriteNoSave(t) ==
  /\ pc[t] = "upd_write"
  /\ positions' = SetItem(positions, fr[t].symbol, fr[t].new_position)
  /\ fr' = [fr EXCEPT ![t].trace = Append(@, "update")]
  /\ pc' = [pc EXCEPT ![t] = "upd_ret"]
  /\ pending' = [pending EXCEPT ![fr[t].symbol] = None]
  /\ UNCHANGED <<store, boot, peer, loaded, applied, failed, calls>>

\* update_position, line 127: self.positions[symbol] = new_position
UpdWrite(t) ==
  /\ pc[t] = "upd_write"
  /\ positions' = SetItem(positions, fr[t].symbol, fr[t].new_position)
  /\ fr' = [fr EXCEPT ![t].trace = Append(@, "update")]
  /\ pc' = [pc EXCEPT ![t] = "save_open"]
  /\ pending' = [pending EXCEPT ![fr[t].symbol] = None]
  /\ UNCHANGED <<store, boot, peer, loaded, applied, failed, calls>>

\* Mutant of SaveOpen: an IOError on opening the file is not caught.
SaveOpenRaising(t) ==
  /\ pc[t] = "save_open"
  /\ \/ /\ store' = TruncatedStore
        /\ fr' = [fr EXCEPT ![t].buffer = JsonDump(positions.items)]
        /\ pc' = [pc EXCEPT ![t] = "save_close"]
        /\ UNCHANGED failed
     \/ /\ fr' = [fr EXCEPT ![t].saved = "open_failed", ![t].exc = "IOError",
                            ![t].trace = Append(@, "save")]
        /\ pc' = [pc EXCEPT ![t] = "raised"]
        /\ failed' = TRUE
        /\ UNCHANGED store
  /\ UNCHANGED <<positions, boot, peer, loaded, applied, pending, calls>>

\* Mutant of SaveOpen: the file is brought up to date record by record: what it held
\* is kept and the record just updated is put in.
SaveOpenDelta(t) ==
  /\ pc[t] = "save_open"
  /\ \/ /\ store' = TruncatedStore
        /\ fr' = [fr EXCEPT ![t].buffer =
                    {m \in store.text : m[1] # fr[t].symbol}
                      \cup {<<fr[t].symbol, fr[t].new_position>>}]
        /\ pc' = [pc EXCEPT ![t] = "save_close"]
        /\ UNCHANGED failed
     \/ /\ fr' = [fr EXCEPT ![t].saved = "open_failed", ![t].trace = Append(@, "save")]
        /\ pc' = [pc EXCEPT ![t] = "upd_ret"]
        /\ failed' = TRUE
        /\ UNCHANGED store
  /\ UNCHANGED <<positions, boot, peer, loaded, applied, pending, calls>>

\* Mutant of SaveOpen: records the file holds for symbols this process has no record
\* of are read back and kept in what is written.
SaveOpenMerging(t) ==
  /\ pc[t] = "save_open"
  /\ \/ /\ store' = TruncatedStore
        /\ fr' = [fr EXCEPT ![t].buffer =
                    JsonDump(positions.items)
                      \cup {m \in store.text : m[1] \notin DOMAIN positions.items}]
        /\ pc' = [pc EXCEPT ![t] = "save_close"]
        /\ UNCHANGED failed
     \/ /\ fr' = [fr EXCEPT ![t].saved = "open_failed", ![t].trace = Append(@, "save")]
        /\ pc' = [pc EXCEPT ![t] = "upd_ret"]
        /\ failed' = TRUE
        /\ UNCHANGED store
  /\ UNCHANGED <<positions, boot, peer, loaded, applied, pending, calls>>

\* Mutant of SaveOpen: only the record just updated is written.
SaveOpenIncrement(t) ==
  /\ pc[t] = "save_open"
  /\ \/ /\ store' = TruncatedStore
        /\ fr' = [fr EXCEPT ![t].buffer = {<<fr[t].symbol, fr[t].new_position>>}]
        /\ pc' = [pc EXCEPT ![t] = "save_close"]
        /\ UNCHANGED failed
     \/ /\ fr' = [fr EXCEPT ![t].saved = "open_failed", ![t].trace = Append(@, "save")]
        /\ pc' = [pc EXCEPT ![t] = "upd_ret"]
        /\ failed' = TRUE
        /\ UNCHANGED store
  /\ UNCHANGED <<positions, boot, peer, loaded, applied, pending, calls>>

\* _save_positions, lines 86-87: open(abs_path, 'w') truncates the file and json.dump
\* serialises the mapping into the file object's buffer; an IOError is caught and logged.
SaveOpen(t) ==
  /\ pc[t] = "save_open"
  /\ \/ /\ store' = TruncatedStore
        /\ fr' = [fr EXCEPT ![t].buffer = JsonDump(positions.items)]
        /\ pc' = [pc EXCEPT ![t] = "save_close"]
        /\ UNCHANGED failed
     \/ /\ fr' = [fr EXCEPT ![t].saved = "open_failed", ![t].trace = Append(@, "save")]
        /\ pc' = [pc EXCEPT ![t] = "upd_ret"]
        /\ failed' = TRUE
        /\ UNCHANGED store
  /\ UNCHANGED <<positions, boot, peer, loaded, applied, pending, calls>>

\* _save_positions, leaving the with block: the buffer reaches the file, or an IOError
\* is caught and logged and the file stays as truncated.
SaveClose(t) ==
  /\ pc[t] = "save_close"
  /\ \/ /\ store' = ObjectStore(fr[t].buffer)
        /\ fr' = [fr EXCEPT ![t].saved = "ok", ![t].trace = Append(@, "save")]
        /\ UNCHANGED failed
     \/ /\ fr' = [fr EXCEPT ![t].saved = "write_failed", ![t].trace = Append(@, "save")]
        /\ failed' = TRUE
        /\ UNCHANGED store
  /\ pc' = [pc EXCEPT ![t] = "upd_ret"]
  /\ UNCHANGED <<positions, boot, peer, loaded, applied, pending, calls>>

\* Mutant of UpdReturn: the placement reports the position it read before the fill.
UpdReturnStale(t) ==
  /\ pc[t] = "upd_ret"
  /\ applied' = [applied EXCEPT ![fr[t].symbol] = @ + SignedFill(fr[t].quantity[1], fr[t].side)]
  /\ fr' = [fr EXCEPT ![t].final_quantity =
                         IF fr[t].op = "update" THEN None ELSE Some(fr[t].current_position),
                      ![t].value = Some(fr[t].new_position),
                      ![t].trace = Append(@, "return")]
  /\ pc' = [pc EXCEPT ![t] = "returned"]
  /\ pending' = IF fr[t].op \in PlaceOps /\ fr[t].status \in PendingStatuses
                  THEN [pending EXCEPT ![fr[t].symbol] = Some(fr[t].new_position)]
                  ELSE pending
  /\ UNCHANGED <<positions, store, boot, peer, loaded, failed, calls>>

\* update_position returns new_position; a placement stores it as final_quantity and returns.
UpdReturn(t) ==
  /\ pc[t] = "upd_ret"
  /\ applied' = [applied EXCEPT ![fr[t].symbol] = @ + SignedFill(fr[t].quantity[1], fr[t].side)]
  /\ fr' = [fr EXCEPT ![t].final_quantity =
                         IF fr[t].op = "update" THEN None ELSE Some(fr[t].new_position),
                      ![t].value = Some(fr[t].new_position),
                      ![t].trace = Append(@, "return")]
  /\ pc' = [pc EXCEPT ![t] = "returned"]
  /\ pending' = IF fr[t].op \in PlaceOps /\ fr[t].status \in PendingStatuses
                  THEN [pending EXCEPT ![fr[t].symbol] = Some(fr[t].new_position)]
                  ELSE pending
  /\ UNCHANGED <<positions, store, boot, peer, loaded, failed, calls>>

\* A direct call of update_position(symbol, quantity, is_buy).
UpdatePosition(t, m) ==
  \E symbol \in Symbols, side \in Sides, quantity \in m.quantities :
    /\ CanCall(t, m)
    /\ Enter(t, "update", symbol, side, Some(quantity), None, None, TRUE, "upd_read")

\* cancel_order(symbol, order_id): the order id goes to the exchange only.
CancelOrder(t, m) ==
  \E symbol \in Symbols :
    /\ CanCall(t, m)
    /\ Enter(t, "cancel", symbol, "BUY", None, None, None, TRUE, "cancel")

\* Mutant of Cancel: an accepted cancellation also flattens the symbol's position.
CancelFlattening(t) ==
  /\ pc[t] = "cancel"
  /\ pc' = [pc EXCEPT ![t] = "returned"]
  /\ fr' = [fr EXCEPT ![t].trace = @ \o <<"cancel", "return">>]
  /\ positions' = [positions EXCEPT !.items = [k \in DOMAIN @ \cup {fr[t].symbol} |-> 0]]
  /\ UNCHANGED <<store, boot, peer, loaded, applied, failed, pending, calls>>

\* result = self.client.futures_cancel_order(symbol=symbol, orderId=order_id)
Cancel(t) ==
  /\ pc[t] = "cancel"
  /\ \/ /\ pc' = [pc EXCEPT ![t] = "returned"]
        /\ fr' = [fr EXCEPT ![t].trace = @ \o <<"cancel", "return">>]
     \/ Raise(t, "BinanceAPIException", "cancel")
  /\ UNCHANGED <<positions, store, boot, peer, loaded, applied, failed, pending, calls>>

\* Mutant of GetPositionCall: a symbol without a record is given one of value 0 by the
\* read (as self.positions.setdefault(symbol, 0.0) would do).
GetPositionCallCreating(t, m) ==
  \E symbol \in Symbols :
    /\ CanCall(t, m)
    /\ LET g == GetPosition(positions, symbol) IN
         /\ fr' = [fr EXCEPT ![t] =
                     [NoFrame EXCEPT !.op = "get", !.symbol = symbol,
                                     !.exc = IF g.raised THEN "AttributeError" ELSE "none",
                                     !.value = IF g.raised THEN None ELSE Some(g.value),
                                     !.pre = [positions |-> positions, store |-> store]]]
         /\ pc' = [pc EXCEPT ![t] = IF g.raised THEN "raised" ELSE "returned"]
         /\ positions' = IF g.raised THEN positions ELSE SetItem(positions, symbol, g.value)
    /\ calls' = calls + 1
    /\ UNCHANGED <<store, boot, peer, loaded, applied, failed, pending>>

\* A call of get_position(symbol): one read of the mapping.
GetPositionCall(t, m) ==
  \E symbol \in Symbols :
    /\ CanCall(t, m)
    /\ LET g == GetPosition(positions, symbol) IN
         /\ fr' = [fr EXCEPT ![t] =
                     [NoFrame EXCEPT !.op = "get", !.symbol = symbol,
                                     !.exc = IF g.raised THEN "AttributeError" ELSE "none",
                                     !.value = IF g.raised THEN None ELSE Some(g.value),
                                     !.pre = [positions |-> positions, store |-> store]]]
         /\ pc' = [pc EXCEPT ![t] = IF g.raised THEN "raised" ELSE "returned"]
    /\ calls' = calls + 1
    /\ UNCHANGED <<positions, store, boot, peer, loaded, applied, failed, pending>>

\* A call of get_all_positions(): one pass over the mapping's items.
GetAllPositionsCall(t, m) ==
  /\ CanCall(t, m)
  /\ fr' = [fr EXCEPT ![t] =
              [NoFrame EXCEPT !.op = "snapshot",
                              !.exc = IF positions.isdict THEN "none" ELSE "AttributeError",
                              !.snapshot = IF positions.isdict
                                             THEN GetAllPositions(positions) ELSE EmptyItems,
                              !.pre = [positions |-> positions, store |-> store]]]
  /\ pc' = [pc EXCEPT ![t] = IF positions.isdict THEN "returned" ELSE "raised"]
  /\ calls' = calls + 1
  /\ UNCHANGED <<positions, store, boot, peer, loaded, applied, failed, pending>>

\* The methods that only ask the exchange and hand back its answer.
PassThroughOps == {"account", "balance", "price", "order_status", "open_orders"}

\* get_account_info()
GetAccountInfo(t, m) ==
  /\ CanCall(t, m)
  /\ Enter(t, "account", "BTCUSDT", "BUY", None, None, None, TRUE, "fetch")

\* get_balance(asset)
GetBalance(t, m) ==
  /\ CanCall(t, m)
  /\ Enter(t, "balance", "BTCUSDT", "BUY", None, None, None, TRUE, "fetch")

\* get_market_price(symbol)
GetMarketPrice(t, m) ==
  \E symbol \in Symbols :
    /\ CanCall(t, m)
    /\ Enter(t, "price", symbol, "BUY", None, None, None, TRUE, "fetch")

\* get_order_status(symbol, order_id), called on its own.
GetOrderStatus(t, m) ==
  \E symbol \in Symbols :
    /\ CanCall(t, m)
    /\ Enter(t, "order_status", symbol, "BUY", None, None, None, TRUE, "fetch")

\* get_open_orders(symbol)
GetOpenOrders(t, m) ==
  \E symbol \in Symbols :
    /\ CanCall(t, m)
    /\ Enter(t, "open_orders", symbol, "BUY", None, None, None, TRUE, "fetch")

\* Mutant of Fetch: a query that was answered also rewrites the store.
FetchSaving(t, m) ==
  /\ pc[t] = "fetch"
  /\ \/ \E status \in m.statuses :
          /\ fr' = [fr EXCEPT ![t].status = IF fr[t].op = "order_status" THEN status ELSE "none",
                              ![t].trace = @ \o <<"fetch", "return">>]
          /\ pc' = [pc EXCEPT ![t] = "returned"]
          /\ store' = ObjectStore(JsonDump(positions.items))
     \/ Raise(t, "BinanceAPIException", "fetch") /\ UNCHANGED store
  /\ UNCHANGED <<positions, boot, peer, loaded, applied, failed, pending, calls>>

\* Mutant of Fetch: an order that get_order_status reports as FILLED is settled in the
\* ledger as a buy of one lot.
FetchReconciling(t, m) ==
  /\ pc[t] = "fetch"
  /\ \/ \E status \in m.statuses :
          /\ fr' = [fr EXCEPT ![t].status = IF fr[t].op = "order_status" THEN status ELSE "none",
                              ![t].trace = @ \o <<"fetch", "return">>]
          /\ pc' = [pc EXCEPT ![t] = "returned"]
          /\ positions' = IF fr[t].op = "order_status" /\ status = "FILLED" /\ positions.isdict
                            THEN SetItem(positions, fr[t].symbol,
                                         GetPosition(positions, fr[t].symbol).value + 1)
                            ELSE positions
     \/ Raise(t, "BinanceAPIException", "fetch") /\ UNCHANGED positions
  /\ UNCHANGED <<store, boot, peer, loaded, applied, failed, pending, calls>>

\* The one request of a pass-through method: the answer is returned, or the error is
\* logged and raised again. The answer to get_order_status carries the order's status.
Fetch(t, m) ==
  /\ pc[t] = "fetch"
  /\ \/ \E status \in m.statuses :
          /\ fr' = [fr EXCEPT ![t].status = IF fr[t].op = "order_status" THEN status ELSE "none",
                              ![t].trace = @ \o <<"fetch", "return">>]
          /\ pc' = [pc EXCEPT ![t] = "returned"]
     \/ Raise(t, "BinanceAPIException", "fetch")
  /\ UNCHANGED <<positions, store, boot, peer, loaded, applied, failed, pending, calls>>

\* The statements of update_position and _save_positions.
UpdateStep(t) ==
  \/ UpdRead(t)
  \/ UpdWrite(t)
  \/ SaveOpen(t)
  \/ SaveClose(t)
  \/ UpdReturn(t)

\* The order tracker driven by one caller at a time (cli_interface; the GUI used one
\* request at a time).
Next ==
  \E t \in Threads :
    \/ PlaceMarketOrder(t, Sequential)
    \/ PlaceLimitOrder(t, Sequential)
    \/ PlaceStopLimitOrder(t, Sequential)
    \/ CancelOrder(t, Sequential)
    \/ GetPositionCall(t, Sequential)
    \/ GetAllPositionsCall(t, Sequential)
    \/ GetAccountInfo(t, Sequential)
    \/ GetBalance(t, Sequential)
    \/ GetMarketPrice(t, Sequential)
    \/ GetOrderStatus(t, Sequential)
    \/ GetOpenOrders(t, Sequential)
    \/ Submit(t)
    \/ Query(t, Sequential)
    \/ Cancel(t)
    \/ Fetch(t, Sequential)
    \/ UpdateStep(t)

\* The position ledger alone, driven by one caller at a time.
NextLedger ==
  \E t \in Threads :
    \/ UpdatePosition(t, LedgerOnly)
    \/ GetPositionCall(t, LedgerOnly)
    \/ GetAllPositionsCall(t, LedgerOnly)
    \/ UpdateStep(t)

\* Callers on several threads at once (worker threads of TradingBotUI.run_in_thread).
NextConc ==
  \E t \in Threads :
    \/ PlaceMarketOrder(t, Concurrent)
    \/ PlaceLimitOrder(t, Concurrent)
    \/ UpdatePosition(t, Concurrent)
    \/ Submit(t)
    \/ Query(t, Concurrent)
    \/ UpdateStep(t)

\* A longer session of one caller: a placement and the calls that follow it (look the
\* order up, list the open orders, cancel it, read the ledger, place another order),
\* with orders of one lot.
NextFollowUp ==
  \E t \in Threads :
    \/ PlaceMarketOrder(t, FollowUp)
    \/ PlaceLimitOrder(t, FollowUp)
    \/ PlaceStopLimitOrder(t, FollowUp)
    \/ calls > 0 /\ CancelOrder(t, FollowUp)
    \/ calls > 0 /\ GetPositionCall(t, FollowUp)
    \/ calls > 0 /\ GetAllPositionsCall(t, FollowUp)
    \/ calls > 0 /\ GetAccountInfo(t, FollowUp)
    \/ calls > 0 /\ GetBalance(t, FollowUp)
    \/ calls > 0 /\ GetMarketPrice(t, FollowUp)
    \/ calls > 0 /\ GetOrderStatus(t, FollowUp)
    \/ calls > 0 /\ GetOpenOrders(t, FollowUp)
    \/ Submit(t)
    \/ Query(t, FollowUp)
    \/ Cancel(t)
    \/ Fetch(t, FollowUp)
    \/ UpdateStep(t)

\* The second process is started: its __init__ loads the store as it is at that moment.
\* (When the load raises, the process ends before it has a bot.)
PeerInit ==
  /\ ~peer.up
  /\ ~LoadPositions(store).raised
  /\ peer' = [PeerDown EXCEPT !.up = TRUE, !.positions = LoadPositions(store).value]
  /\ UNCHANGED <<positions, store, boot, loaded, pc, fr, applied, failed, pending, calls>>

\* update_position in the second process, start to end: its own mapping is read and
\* written, and _save_positions rewrites the file from it or fails and is logged.
PeerUpdatePosition ==
  \E symbol \in Symbols, side \in Sides, quantity \in Shared.quantities :
    /\ peer.up
    /\ peer.fills < MaxPeerFills
    /\ ~GetPosition(peer.positions, symbol).raised
    /\ LET new_position == NewPosition(GetPosition(peer.positions, symbol).value,
                                       quantity, IsBuy(side))
           new_positions == SetItem(peer.positions, symbol, new_position)
       IN  \/ /\ store' = ObjectStore(JsonDump(new_positions.items))
              /\ peer' = [peer EXCEPT !.positions = new_positions, !.fills = @ + 1,
                                      !.saved = "ok"]
           \/ /\ store' \in {store, TruncatedStore}
              /\ peer' = [peer EXCEPT !.positions = new_positions, !.fills = @ + 1,
                                      !.saved = "failed"]
    /\ UNCHANGED <<positions, boot, loaded, pc, fr, applied, failed, pending, calls>>

\* Two bot processes on one positions file: this one, driven by one caller, and the
\* second one (a CLI run beside the GUI).
NextShared ==
  \/ \E t \in Threads :
       \/ UpdatePosition(t, Shared)
       \/ UpdateStep(t)
  \/ PeerInit
  \/ PeerUpdatePosition

\* A start-up that finds no store, or the store a previous run left.
InitConc ==
  /\ Init
  /\ store \in {AbsentStore, ObjectStore({<<"BTCUSDT", 1>>, <<"ETHUSDT", 0>>})}

Spec == Init /\ [][Next]_vars

SpecLedger == Init /\ [][NextLedger]_vars

SpecConc == InitConc /\ [][NextConc]_vars

SpecFollowUp == Init /\ [][NextFollowUp]_vars

SpecShared == InitConc /\ [][NextShared]_vars

\* ------------------------------------------------------------ the claims
NetQuantity(pos, symbol) == GetPosition(pos, symbol).value
Count(seq, e) == Cardinality({i \in DOMAIN seq : seq[i] = e})
LedgerUntouched(t) ==
  /\ positions = fr[t].pre.positions
  /\ store = fr[t].pre.store

\* C1: starting from an empty ledger, whenever no update_position call is running the
\* net quantity of every symbol equals the sum of the signed quantities (+|q| for a
\* buy, -|q| for a sell) of the calls made for that symbol, whatever calls were made
\* for the other symbols in between.
C1_NetIsSumOfSignedFills ==
  (boot = "ok" /\ loaded = EmptyDict /\ \A t \in Threads : pc[t] \in Rest)
    => \A s \in Symbols : NetQuantity(positions, s) = applied[s]

\* Three completed calls over both symbols, the last one with a negative quantity passed.
C1_Witness ==
  /\ loaded = EmptyDict
  /\ calls = 3
  /\ applied["BTCUSDT"] = 3
  /\ pc[MainThread] = "returned"
  /\ fr[MainThread].op = "update"
  /\ fr[MainThread].quantity[1] < 0
  /\ \A s \in Symbols : applied[s] # 0

\* C2: once concurrent placements that each settled a FILLED order have all returned,
\* the net quantity of every symbol is its value at start-up plus the signed quantity
\* of every fill (no update is lost).
C2_NoLostUpdate ==
  (\A t \in Threads : /\ pc[t] = "returned"
                      /\ fr[t].op \in PlaceOps
                      /\ fr[t].status = "FILLED"
                      /\ fr[t].final_quantity # None)
    => \A s \in Symbols : NetQuantity(positions, s) = NetQuantity(loaded, s) + applied[s]

\* C3: a placement of any kind that returned with a status other than FILLED left the
\* in-memory mapping and the store as they were before the call.
C3_OnlyFilledSettles ==
  \A t \in Threads :
    (pc[t] = "returned" /\ fr[t].op \in PlaceOps /\ fr[t].status # "FILLED")
      => LedgerUntouched(t)

\* C4: a MARKET order of quantity Q > 0 on symbol S that returned with status FILLED
\* moved the net quantity of S by +Q for BUY and by -Q for SELL and left every other
\* symbol's net quantity as it was.
C4_FilledMarketMovesByQ ==
  \A t \in Threads :
    (pc[t] = "returned" /\ fr[t].op = "market" /\ fr[t].status = "FILLED"
       /\ fr[t].quantity[1] > 0)
      => \A s \in Symbols :
           NetQuantity(positions, s) =
             NetQuantity(fr[t].pre.positions, s)
               + (IF s # fr[t].symbol THEN 0
                  ELSE IF fr[t].side = "BUY" THEN fr[t].quantity[1] ELSE -fr[t].quantity[1])

\* A filled market SELL of two lots on a ledger that held other records.
C4_Witness ==
  \E t \in Threads :
    /\ pc[t] = "returned" /\ fr[t].op = "market" /\ fr[t].status = "FILLED"
    /\ fr[t].side = "SELL" /\ fr[t].quantity = Some(2)
    /\ fr[t].symbol = "ETHUSDT"
    /\ NetQuantity(positions, "BTCUSDT") = 1

\* C5: a LIMIT or STOP_LIMIT placement that returned with status NEW or
\* PARTIALLY_FILLED left the in-memory mapping and the store as they were and made no
\* update and no store write.
C5_PendingLeavesLedger ==
  \A t \in Threads :
    (pc[t] = "returned" /\ fr[t].op \in {"limit", "stop_limit"}
       /\ fr[t].status \in {"NEW", "PARTIALLY_FILLED"})
      => /\ LedgerUntouched(t)
         /\ Count(fr[t].trace, "update") = 0
         /\ Count(fr[t].trace, "save") = 0

\* A partially filled limit order on a ledger with an open position.
C5_Witness ==
  \E t \in Threads :
    /\ pc[t] = "returned" /\ fr[t].op = "limit" /\ fr[t].status = "PARTIALLY_FILLED"
    /\ fr[t].executedQty > 0
    /\ NetQuantity(positions, fr[t].symbol) = 1

\* C6: a LIMIT or STOP_LIMIT placement that returned with status FILLED applied the
\* request's full quantity, whatever executed quantity the order result reported, in
\* the direction of the request's side, with one update of the mapping.
C6_FilledAppliesFullQuantity ==
  \A t \in Threads :
    (pc[t] = "returned" /\ fr[t].op \in {"limit", "stop_limit"} /\ fr[t].status = "FILLED")
      => /\ NetQuantity(positions, fr[t].symbol) =
              NetQuantity(fr[t].pre.positions, fr[t].symbol)
                + SignedFill(fr[t].quantity[1], fr[t].side)
         /\ Count(fr[t].trace, "update") = 1

\* A filled stop-limit SELL of two lots whose order result reported nothing executed.
C6_Witness ==
  \E t \in Threads :
    /\ pc[t] = "returned" /\ fr[t].op = "stop_limit" /\ fr[t].status = "FILLED"
    /\ fr[t].side = "SELL" /\ fr[t].quantity = Some(2) /\ fr[t].executedQty = 0

\* C7: a placement that lacks a required argument (MARKET: quantity; LIMIT: quantity,
\* price; STOP_LIMIT: quantity, price, stop price) ends with a ValueError, having sent
\* neither a submit nor a status query, with the mapping and the store unchanged.
MissingArgument(f) ==
  \/ f.op = "market" /\ f.quantity = None
  \/ f.op = "limit" /\ (f.quantity = None \/ f.price = None)
  \/ f.op = "stop_limit" /\ (f.quantity = None \/ f.price = None \/ f.stop_price = None)

C7_ValidationBeforeNetwork ==
  \A t \in Threads :
    MissingArgument(fr[t])
      => /\ pc[t] = "raised"
         /\ fr[t].exc = "ValueError"
         /\ Count(fr[t].trace, "submit") = 0
         /\ Count(fr[t].trace, "query") = 0
         /\ LedgerUntouched(t)

\* A limit order with a quantity and no price.
C7_Witness ==
  \E t \in Threads :
    /\ fr[t].op = "limit" /\ fr[t].quantity = Some(1) /\ fr[t].price = None
    /\ pc[t] = "raised"

\* C8: during and after cancel_order the in-memory mapping and the store are what they
\* were before the call, whether the exchange accepts or rejects the cancellation.
C8_CancelLeavesLedger ==
  \A t \in Threads : fr[t].op = "cancel" => LedgerUntouched(t)

\* An accepted cancellation on a ledger with an open position.
C8_Witness ==
  \E t \in Threads :
    /\ fr[t].op = "cancel" /\ pc[t] = "returned"
    /\ NetQuantity(positions, fr[t].symbol) = 1

\* C9: get_position returns the stored net quantity, or 0 for a symbol without a
\* record, and never raises, whatever store the ledger was loaded from.
C9_GetNeverFails ==
  \A t \in Threads :
    fr[t].op = "get"
      => /\ pc[t] = "returned"
         /\ fr[t].value =
              Some(IF fr[t].symbol \in DOMAIN positions.items
                     THEN positions.items[fr[t].symbol] ELSE 0)

\* C10: after an update_position call whose store write succeeded, _load_positions of
\* the store gives the in-memory mapping: the same symbols with the same quantities,
\* records of quantity 0 included.
C10_RoundTrip ==
  \A t \in Threads :
    (pc[t] \in {"upd_ret", "returned"} /\ fr[t].saved = "ok")
      => /\ ~LoadPositions(store).raised
         /\ LoadPositions(store).value = positions

\* A successful write of a mapping that holds a record of quantity 0.
C10_Witness ==
  \E t \in Threads :
    /\ pc[t] = "returned" /\ fr[t].saved = "ok"
    /\ \E s \in DOMAIN positions.items : positions.items[s] = 0
    /\ \E s \in DOMAIN positions.items : positions.items[s] # 0

\* C11: a process started on a store that is absent, unreadable or corrupt (bytes that
\* do not decode, text that is not JSON, JSON that is not an object) comes up with an
\* empty mapping: _load_positions raised nothing and every symbol reads 0.
C11_LoadFailsSoft ==
  (calls = 0 /\ store.kind # "object")
    => /\ boot = "ok"
       /\ positions = EmptyDict
       /\ \A s \in Symbols :
            ~GetPosition(positions, s).raised /\ GetPosition(positions, s).value = 0

C13_WriteFailureNotFatal ==
  \A t \in Threads :
    fr[t].saved \in {"open_failed", "write_failed"}
      => /\ pc[t] \in {"upd_ret", "returned"}
         /\ fr[t].exc = "none"
         /\ NetQuantity(positions, fr[t].symbol) =
              NetQuantity(fr[t].pre.positions, fr[t].symbol)
                + SignedFill(fr[t].quantity[1], fr[t].side)
         /\ pc[t] = "returned"
              => /\ fr[t].value = Some(NetQuantity(positions, fr[t].symbol))
                 /\ fr[t].op \in PlaceOps
                      => fr[t].final_quantity = Some(NetQuantity(positions, fr[t].symbol))

\* A limit order that returned after a failed store write: the store no longer loads
\* to what the mapping holds.
C13_Witness ==
  \E t \in Threads :
    /\ pc[t] = "returned" /\ fr[t].op = "limit"
    /\ fr[t].saved \in {"open_failed", "write_failed"}
    /\ LoadPositions(store).value # positions

\* C14: a placement sends its order at most once; when the exchange rejects it the
\* call ends with the exchange's error, no status query was made, and the mapping and
\* the store are as they were before the call.
SubmitFailed(t) ==
  /\ fr[t].op \in PlaceOps
  /\ fr[t].exc = "BinanceAPIException"
  /\ fr[t].trace = <<"validate", "submit">>

C14_SubmitFailurePropagates ==
  \A t \in Threads :
    fr[t].op \in PlaceOps
      => /\ Count(fr[t].trace, "submit") <= 1
         /\ SubmitFailed(t)
              => /\ pc[t] = "raised"
                 /\ Count(fr[t].trace, "query") = 0
                 /\ LedgerUntouched(t)
         /\ pc[t] = "submit" => Count(fr[t].trace, "submit") = 0

\* A stop-limit order the exchange rejected, on a ledger with an open position.
C14_Witness ==
  \E t \in Threads :
    /\ SubmitFailed(t) /\ fr[t].op = "stop_limit" /\ pc[t] = "raised"
    /\ NetQuantity(positions, fr[t].symbol) = 1

\* C15: once a placement's order was accepted and the placement is past its status
\* query, exactly one status query was made, right after the submit; no placement
\* ever makes a second one, whatever status the first one reported.
SubmitAccepted(t) ==
  /\ fr[t].op \in PlaceOps
  /\ Count(fr[t].trace, "submit") = 1
  /\ ~SubmitFailed(t)

C15_OneStatusQuery ==
  \A t \in Threads :
    fr[t].op \in PlaceOps
      => /\ Count(fr[t].trace, "query") <= 1
         /\ (SubmitAccepted(t) /\ pc[t] # "query")
              => /\ Count(fr[t].trace, "query") = 1
                 /\ SubSeq(fr[t].trace, 1, 3) = <<"validate", "submit", "query">>
         /\ pc[t] = "returned" => Count(fr[t].trace, "query") = 1

\* A limit order that returned as NEW after its one query.
C15_Witness ==
  \E t \in Threads :
    /\ pc[t] = "returned" /\ fr[t].op = "limit" /\ fr[t].status = "NEW"
    /\ fr[t].trace = <<"validate", "submit", "query", "return">>

\* C16: the events of a placement come in the order validate, submit, query, update,
\* save, return (update and save are skipped when the order does not settle); the
\* mapping and the store differ from what they were before the call only after the
\* submit and the query both succeeded; a placement that changed the mapping returns
\* only after its store write was attempted.
PlaceEvents == <<"validate", "submit", "query", "update", "save", "return">>
IsPrefix(s, q) == Len(s) <= Len(q) /\ s = SubSeq(q, 1, Len(s))

C16_FixedOrder ==
  \A t \in Threads :
    fr[t].op \in PlaceOps
      => /\ \/ IsPrefix(fr[t].trace, PlaceEvents)
            \/ fr[t].trace = <<"validate", "submit", "query", "return">>
         /\ ~LedgerUntouched(t)
              => /\ IsPrefix(<<"validate", "submit", "query">>, fr[t].trace)
                 /\ fr[t].status # "none"
         /\ (pc[t] = "returned" /\ positions # fr[t].pre.positions)
              => /\ fr[t].saved # "none"
                 /\ fr[t].trace = PlaceEvents

\* A filled limit SELL that went through every step and returned.
C16_Witness ==
  \E t \in Threads :
    /\ pc[t] = "returned" /\ fr[t].op = "limit" /\ fr[t].side = "SELL"
    /\ fr[t].status = "FILLED" /\ fr[t].saved = "ok"
    /\ fr[t].trace = PlaceEvents
    /\ positions # fr[t].pre.positions

\* C17: when update_position has written the store and is returning, the store holds
\* one member per record of the in-memory mapping, the record just updated among them;
\* and in a run of one caller in which no store write failed, whenever no call is
\* running the store loads to the in-memory mapping.
C17_PersistsBeforeReturn ==
  /\ \A t \in Threads :
       (pc[t] \in {"upd_ret", "returned"} /\ fr[t].saved = "ok")
         => /\ store = ObjectStore(JsonDump(positions.items))
            /\ <<fr[t].symbol, fr[t].new_position>> \in store.text
            /\ Cardinality(store.text) = Cardinality(DOMAIN positions.items)
  /\ (boot = "ok" /\ ~failed /\ \A t \in Threads : pc[t] \in Rest)
       => LoadPositions(store).value = positions

\* A written update of one symbol on a ledger that also holds the other symbol, which
\* this call did not touch.
C17_Witness ==
  \E t \in Threads :
    /\ pc[t] = "returned" /\ fr[t].op = "update" /\ fr[t].saved = "ok"
    /\ ~failed /\ calls = 2
    /\ DOMAIN positions.items = Symbols
    /\ \E s \in Symbols \ {fr[t].symbol} : <<s, positions.items[s]>> \in store.text

\* C18: no step removes a record from the in-memory mapping; an update that brings a
\* symbol back to 0 leaves its record in the mapping with value 0, and once its store
\* write has succeeded the store holds that record too and loads it back with value 0.
C18_RecordsKept ==
  /\ [][DOMAIN positions.items \subseteq DOMAIN positions'.items]_vars
  /\ [](\A t \in Threads :
          (pc[t] \in {"upd_ret", "returned"} /\ fr[t].saved # "none"
             /\ fr[t].new_position = 0)
            => /\ fr[t].symbol \in DOMAIN positions.items
               /\ positions.items[fr[t].symbol] = 0
               /\ fr[t].saved = "ok"
                    => /\ <<fr[t].symbol, 0>> \in store.text
                       /\ fr[t].symbol \in DOMAIN LoadPositions(store).value.items
                       /\ LoadPositions(store).value.items[fr[t].symbol] = 0)

\* A sell that closed a position this run had opened, written to the store.
C18_Witness ==
  \E t \in Threads :
    /\ pc[t] = "returned" /\ fr[t].op = "update" /\ fr[t].saved = "ok"
    /\ fr[t].side = "SELL" /\ fr[t].current_position > 0 /\ fr[t].new_position = 0
    /\ loaded = EmptyDict
    /\ <<fr[t].symbol, 0>> \in store.text

\* C19: during and after get_account_info, get_balance, get_market_price,
\* get_order_status and get_open_orders the in-memory mapping and the store are what
\* they were before the call, whether the exchange answers or fails.
C19_PassThroughLeavesLedger ==
  \A t \in Threads : fr[t].op \in PassThroughOps => LedgerUntouched(t)

\* A get_order_status that was answered FILLED, on a ledger with an open position and
\* no store file yet written.
C19_Witness ==
  \E t \in Threads :
    /\ fr[t].op = "order_status" /\ pc[t] = "returned" /\ fr[t].status = "FILLED"
    /\ fr[t].trace = <<"validate", "fetch", "return">>
    /\ NetQuantity(positions, fr[t].symbol) = 1

\* C20: after a placement on a symbol returned with status NEW or PARTIALLY_FILLED,
\* the symbol's net quantity stays what it was at that return through every later
\* cancel_order, get_position, get_all_positions and pass-through call, whatever
\* status get_order_status then reports, and through later placements, until one of
\* them writes a new position for that symbol.
C20_NoLaterReconciliation ==
  \A s \in Symbols :
    pending[s] # None => NetQuantity(positions, s) = pending[s][1]

\* The exchange reports FILLED for a symbol whose limit order had returned as open,
\* after two follow-up calls.
C20_Witness ==
  \E t \in Threads :
    /\ fr[t].op = "order_status" /\ pc[t] = "returned" /\ fr[t].status = "FILLED"
    /\ pending[fr[t].symbol] # None
    /\ calls = 3

\* C21: when the status query of a placement fails after its order was accepted, the
\* placement ends with the exchange's error, having made that one query and no other,
\* and the mapping and the store are as they were before the call: for a market, a
\* limit and a stop-limit order alike, nothing is settled and no final quantity is set.
QueryFailed(t) ==
  /\ fr[t].op \in PlaceOps
  /\ fr[t].exc = "BinanceAPIException"
  /\ Len(fr[t].trace) >= 3
  /\ SubSeq(fr[t].trace, 1, 3) = <<"validate", "submit", "query">>
  /\ fr[t].status = "none"

C21_QueryFailurePropagates ==
  \A t \in Threads :
    QueryFailed(t)
      => /\ pc[t] = "raised"
         /\ fr[t].trace = <<"validate", "submit", "query">>
         /\ fr[t].final_quantity = None
         /\ LedgerUntouched(t)

\* A market BUY whose status query failed, on a ledger with an open position in the
\* order's symbol.
C21_Witness ==
  \E t \in Threads :
    /\ QueryFailed(t) /\ pc[t] = "raised"
    /\ fr[t].op = "market" /\ fr[t].side = "BUY"
    /\ NetQuantity(positions, fr[t].symbol) = 1

\* C22: in a run of one caller, when an update_position call has written the store
\* after earlier calls' writes had failed, the store loads to the whole in-memory
\* mapping: for every symbol, what the ledger was loaded with plus every fill applied
\* since, the fills whose own write had failed included.
C22_NextWriteHeals ==
  \A t \in Threads :
    (pc[t] = "returned" /\ fr[t].op = "update" /\ fr[t].saved = "ok" /\ failed)
      => /\ ~LoadPositions(store).raised
         /\ LoadPositions(store).value = positions
         /\ \A s \in Symbols :
              NetQuantity(LoadPositions(store).value, s) = NetQuantity(loaded, s) + applied[s]

\* Two fills on two symbols: the write of the first failed, the write of the second
\* succeeded, and the store holds the first fill too.
C22_Witness ==
  \E t \in Threads :
    /\ pc[t] = "returned" /\ fr[t].op = "update" /\ fr[t].saved = "ok" /\ failed
    /\ calls = 2
    /\ \E s \in Symbols \ {fr[t].symbol} :
         /\ applied[s] # 0
         /\ <<s, NetQuantity(loaded, s) + applied[s]>> \in store.text

\* C23: with two bot processes on one store, a step of one process never changes the
\* other's in-memory mapping (each loaded the store once, when it was constructed); a
\* store write that succeeds leaves in the store exactly the writing process's own
\* mapping, whatever the other process had written there; and so the mapping of this
\* process is what it loaded plus its own fills, with none of the other's fills in it.
ThisProcessWrote ==
  \E t \in Threads : fr[t].saved # "ok" /\ fr'[t].saved = "ok"
PeerWrote == peer.fills # peer'.fills /\ peer'.saved = "ok"

C24_StoreEqualsMemoryAtRest ==
  (boot = "ok" /\ ~failed /\ \A t \in Threads : pc[t] \in Rest)
    => /\ ~LoadPositions(store).raised
       /\ LoadPositions(store).value = positions

\* C25: a get_position or get_all_positions call, whether it returns or raises, leaves
\* the in-memory mapping with the same records and the same quantities and leaves the
\* store as it was: in particular a read of a symbol that has no record creates none.
ReadOps == {"get", "snapshot"}

C25_ReadsArePure ==
  /\ [][(\E t \in Threads : fr'[t].op \in ReadOps /\ calls' = calls + 1)
          => (positions' = positions /\ store' = store)]_vars
  /\ [](\A t \in Threads :
          fr[t].op \in ReadOps
            => /\ LedgerUntouched(t)
               /\ DOMAIN positions.items = DOMAIN fr[t].pre.positions.items)

\* A ledger built from nothing holds one symbol only: get_position of the other symbol
\* returned 0 and that symbol still has no record.
C25_Witness ==
  \E t \in Threads :
    /\ fr[t].op = "get" /\ pc[t] = "returned" /\ fr[t].value = Some(0)
    /\ loaded = EmptyDict
    /\ DOMAIN positions.items = Symbols \ {fr[t].symbol}

\* C26: the result of a placement that returned carries final_quantity exactly when
\* the placement changed the mapping through update_position, and the value it
\* carries is what get_position gives for the order's symbol once the call is back;
\* a placement that raised has no result and no final_quantity.
C26_FinalQuantityIffFill ==
  \A t \in Threads :
    fr[t].op \in PlaceOps
      => /\ pc[t] = "returned"
              => /\ fr[t].final_quantity # None <=> Count(fr[t].trace, "update") = 1
                 /\ fr[t].final_quantity # None <=> positions # fr[t].pre.positions
                 /\ fr[t].final_quantity # None
                      => fr[t].final_quantity =
                           Some(GetPosition(positions, fr[t].symbol).value)
         /\ pc[t] # "returned" => fr[t].final_quantity = None

\* A filled stop-limit SELL of two lots that took a position of one lot to a short of
\* one, and reports -1.
C26_Witness ==
  \E t \in Threads :
    /\ pc[t] = "returned" /\ fr[t].op = "stop_limit" /\ fr[t].side = "SELL"
    /\ fr[t].current_position = 1
    /\ fr[t].final_quantity = Some(-1)
    /\ GetPosition(positions, fr[t].symbol).value = -1

====
